---- MODULE Spec2Model ----
(***************************************************************************)
(* Model of src/src/chaining_hash_table.py (HashTableChaining) and         *)
(* src/src/quicksort.py (3-way quicksort).                                 *)
(*                                                                         *)
(* The hash table is modelled with its call stack: insert calls _resize,   *)
(* and _resize calls insert again for every collected pair, so the states  *)
(* inside a resize are states of the model.  Python integers are unbounded;*)
(* the modular arithmetic of _index is computed with add/multiply modulo p *)
(* that never leaves the 32-bit range of the model checker.                *)
(***************************************************************************)
EXTENDS Integers, Sequences, FiniteSets, TLC

VARIABLES
    \* ---- HashTableChaining fields
    m,                \* self.m: number of buckets
    n,                \* self.n: number of stored pairs
    table,            \* self.table: sequence of m chains of <<key, value>>
    a, b,             \* self.a, self.b: hash parameters
    max_load_factor,  \* self.max_load_factor as a fraction <<num, den>>
    \* ---- control state of the running call
    stack,            \* activation records of insert / _resize / delete
    cur,              \* the public call being run, or the last one that returned
    ret,              \* what the last public call returned
    \* ---- history (not program state)
    ref,              \* reference key -> value map run on the same calls
    pre,              \* the table fields when the current public call started
    \* ---- quicksort.py: the lists of the running sort call
    heap,             \* list objects: reference -> contents
    arr,              \* the caller's list (a reference), 0 before any call
    a_copy,           \* the local a of the sort function (a reference)
    variant,          \* "randomized" or "first"
    qstack,           \* activation records of _quicksort
    spc,              \* "idle", "running" or "done"
    result,           \* the returned reference, 0 before the return
    input,            \* history: the contents of the caller's list at the call
    calls,            \* the number of sort calls made so far
    prev              \* history: the result and the variant of the previous call

tvars == <<m, n, table, a, b, max_load_factor, stack, cur, ret, ref, pre>>

svars == <<heap, arr, a_copy, variant, qstack, spc, result, input, calls, prev>>

vars == <<tvars, svars>>

----------------------------------------------------------------------------
(* Bounds and inputs *)

NumKeys == 3

\* keys a caller may pass: 1 and -2147483647 have the same masked hash,
\* -1 has hash -2 (masked: p - 1), 0 hashes to 0.
KeyPool == <<1, -2147483647, -1, 0, 2, 7>>

Keys == {KeyPool[j] : j \in 1..NumKeys}

\* the number of keys of the runs that fill a table of 16 buckets above
\* the load factor 0.20
NumKeysDense == 5

DenseKeys == {KeyPool[j] : j \in 1..NumKeysDense}

None == "None"

Values == {"x", "y", None}

Absent == "absent"

\* initial_capacity arguments: below 2, a power of two, not a power of two
InitCaps == {-1, 1, 2, 3, 4, 8, 9, 16, 17}

\* max_load_factor arguments (0.75 is the default)
LoadFactors == {<<3, 4>>, <<1, 10>>}

P == 2147483647

\* pairs (a, b) that random.randint may draw: a in [1, p-1], b in [0, p-1]
Draws == {<<1, 0>>, <<P - 1, 5>>}

----------------------------------------------------------------------------
(* Pure helpers of HashTableChaining *)

\* variant: the loop runs while p <= x
RECURSIVE np2_le(_, _)
np2_le(p, x) == IF p <= x THEN np2_le(2 * p, x) ELSE p

next_power_of_two_above(x) == np2_le(1, x)

RECURSIVE np2(_, _)
np2(p, x) == IF p < x THEN np2(2 * p, x) ELSE p

next_power_of_two(x) == np2(1, x)

\* hash(key) of a Python int of small magnitude
hash(key) == IF key = -1 THEN -2 ELSE key

\* hk & 0x7FFFFFFF for hk in [-2^31, 2^31 - 1]
mask31(hk) == IF hk >= 0 THEN hk ELSE (hk + 2147483647) + 1

\* (x + y) mod p for x, y in [0, p - 1]
AddModP(x, y) == IF x >= P - y THEN x - (P - y) ELSE x + y

\* (x * 2^16) mod p and (x * 2^11) mod p for x in [0, p - 1]: because
\* 2^31 = 1 (mod p), the 31-bit pattern of x is rotated left
Shl16ModP(x) == (x % 32768) * 65536 + (x \div 32768)

Shl11ModP(x) == (x % 1048576) * 2048 + (x \div 1048576)

\* (x * h) mod p for x in [0, p - 1], h in [0, 2^11 - 1]
MulSmallModP(x, h) == AddModP(Shl16ModP((x \div 65536) * h), (x % 65536) * h)

\* (x * y) mod p for x in [0, p - 1], y in [0, 2^31 - 1], by 11-bit digits of y
MulModP(x, y) ==
    LET t2 == MulSmallModP(x, y \div 4194304)
        t1 == MulSmallModP(x, (y \div 2048) % 2048)
        t0 == MulSmallModP(x, y % 2048)
    IN  AddModP(Shl11ModP(AddModP(Shl11ModP(t2), t1)), t0)

\* variant: the reduction modulo m is missing
index_mod_p(key, a_, b_, m_) ==
    LET hk == mask31(hash(key))
    IN  AddModP(MulModP(a_ % P, hk), b_ % P)

index(key, a_, b_, m_) ==
    LET hk == mask31(hash(key))
    IN  (AddModP(MulModP(a_ % P, hk), b_ % P)) % m_

\* self.load_factor() > num/den.  n/m is exact in floating point because m is
\* a power of two, 0.75 is exact, and no n/m of a table this small lies between
\* 1/10 and the float 0.1, so the float comparison is the rational one.
load_factor_above(n_, m_, f) == n_ * f[2] > f[1] * m_

\* self.load_factor() < 0.20 ; n/m = 1/5 is impossible for a power of two m
load_factor_below_020(n_, m_) == 5 * n_ < m_

----------------------------------------------------------------------------
(* Chains and buckets *)

EmptyTable(m_) == [j \in 1..m_ |-> <<>>]

\* variant: the key comparison is missing, the first pair of the chain matches
first_match_any(bucket, key, j) == IF j <= Len(bucket) THEN j ELSE 0

\* enumerate(bucket): position of the first pair whose key equals key, 0 if none
RECURSIVE first_match(_, _, _)
first_match(bucket, key, j) ==
    IF j > Len(bucket) THEN 0
    ELSE IF bucket[j][1] = key THEN j
    ELSE first_match(bucket, key, j + 1)

\* variant: bucket.pop() removes the last pair
pop_last(bucket, i) == SubSeq(bucket, 1, Len(bucket) - 1)

\* bucket.pop(i)
pop_at(bucket, i) == SubSeq(bucket, 1, i - 1) \o SubSeq(bucket, i + 1, Len(bucket))

\* old_items of _resize: every pair, bucket by bucket, in chain order
RECURSIVE collect_from(_, _)
collect_from(t, j) == IF j > Len(t) THEN <<>> ELSE t[j] \o collect_from(t, j + 1)

collect(t) == collect_from(t, 1)

\* search(key) on given table fields
search_in(t, a_, b_, m_, key) ==
    LET bucket == t[index(key, a_, b_, m_) + 1]
        i == first_match(bucket, key, 1)
    IN  IF i > 0 THEN bucket[i][2] ELSE None

search(key) == search_in(table, a, b, m, key)

\* variant: no scan for an existing key, the pair is always appended
bucket_put_append(bucket, key, value) == Append(bucket, <<key, value>>)

\* the bucket of insert(key, value) after the scan of lines 114-120
bucket_put(bucket, key, value) ==
    LET i == first_match(bucket, key, 1)
    IN  IF i > 0 THEN [bucket EXCEPT ![i] = <<key, value>>]
        ELSE Append(bucket, <<key, value>>)

\* variant: n is incremented also when the key was found and updated
insert_body_counting(t, n_, a_, b_, m_, key, value) ==
    LET idx == index(key, a_, b_, m_)
        bucket == t[idx + 1]
    IN  [table |-> [t EXCEPT ![idx + 1] = bucket_put(bucket, key, value)],
         n |-> n_ + 1]

\* lines 110-121 of insert: the table and n after the scan of the key's bucket
insert_body(t, n_, a_, b_, m_, key, value) ==
    LET idx == index(key, a_, b_, m_)
        bucket == t[idx + 1]
    IN  [table |-> [t EXCEPT ![idx + 1] = bucket_put(bucket, key, value)],
         n |-> IF first_match(bucket, key, 1) > 0 THEN n_ ELSE n_ + 1]

\* insert's grow test
grow_needed(n_, m_, f) == load_factor_above(n_, m_, f)

\* variant: a quarter of the capacity
shrink_target_quarter(m_) == m_ \div 4

\* the capacity delete asks _resize for (line 155)
shrink_target(m_) == m_ \div 2

\* variant: the shrink floor is 16 instead of 8
shrink_needed_16(n_, m_) == m_ > 16 /\ load_factor_below_020(n_, m_)

\* delete's shrink test
shrink_needed(n_, m_) == m_ > 8 /\ load_factor_below_020(n_, m_)

----------------------------------------------------------------------------
(* Activation records *)

Frame(fn, key, value, pc, old_items, i, n0) ==
    [fn |-> fn, key |-> key, value |-> value, pc |-> pc,
     old_items |-> old_items, i |-> i, n0 |-> n0]

InsertFrame(key, value, pc) == Frame("insert", key, value, pc, <<>>, 0, 0)

\* n0 is history: self.n when _resize was entered
ResizeFrame(old_items, n0) == Frame("resize", 0, None, "loop", old_items, 1, n0)

DeleteFrame(key) == Frame("delete", key, None, "ret", <<>>, 0, 0)

Top == stack[Len(stack)]

Pop == SubSeq(stack, 1, Len(stack) - 1)

Snapshot == [m |-> m, n |-> n, table |-> table, a |-> a, b |-> b]

fields == <<m, n, table, a, b>>

history == <<ref, pre>>

\* a public call: the constructor (cap: its initial_capacity), insert, delete or
\* search; had is history: whether the reference map held key when it was called
Call(op, key, value, cap, had) ==
    [op |-> op, key |-> key, value |-> value, cap |-> cap, had |-> had]

\* variant: self.n = 0 is missing
resize_start_keep_n(new_capacity, a2, b2) ==
    /\ m' = next_power_of_two(new_capacity)
    /\ table' = EmptyTable(m')
    /\ n' = n
    /\ a' = a2
    /\ b' = b2

\* lines 88-94 of _resize, on the table t it was entered with
resize_start(new_capacity, a2, b2) ==
    /\ m' = next_power_of_two(new_capacity)
    /\ table' = EmptyTable(m')
    /\ n' = 0
    /\ a' = a2
    /\ b' = b2

----------------------------------------------------------------------------
(* Construction *)

TableInit ==
    /\ \E initial_capacity \in InitCaps :
          /\ m = next_power_of_two(IF initial_capacity < 2 THEN 2 ELSE initial_capacity)
          /\ cur = Call("new", 0, None, initial_capacity, FALSE)
    /\ max_load_factor \in LoadFactors
    /\ n = 0
    /\ table = EmptyTable(m)
    /\ \E d \in Draws : a = d[1] /\ b = d[2]
    /\ stack = <<>>
    /\ ret = None
    /\ ref = [k \in Keys \cup DenseKeys |-> Absent]
    /\ pre = Snapshot

----------------------------------------------------------------------------
(* Public calls and the steps of their bodies *)

\* a caller invokes insert(key, value)
InsertCall(key, value) ==
    /\ UNCHANGED svars
    /\ stack = <<>>
    /\ stack' = <<InsertFrame(key, value, "check")>>
    /\ cur' = Call("insert", key, value, 0, ref[key] # Absent)
    /\ pre' = Snapshot
    /\ ref' = [ref EXCEPT ![key] = value]
    /\ ret' = None
    /\ UNCHANGED <<fields, max_load_factor>>

\* lines 107-108 (and, when growing, _resize up to its reinsertion loop)
InsertCheck ==
    /\ UNCHANGED svars
    /\ stack # <<>>
    /\ Top.fn = "insert" /\ Top.pc = "check"
    /\ IF grow_needed(n, m, max_load_factor)
       THEN /\ \E d \in Draws : resize_start(m * 2, d[1], d[2])
            /\ stack' = Pop \o <<[Top EXCEPT !.pc = "body"],
                                 ResizeFrame(collect(table), n)>>
       ELSE /\ stack' = Pop \o <<[Top EXCEPT !.pc = "body"]>>
            /\ UNCHANGED fields
    /\ UNCHANGED <<max_load_factor, cur, ret, history>>

\* lines 110-121
InsertBody ==
    /\ UNCHANGED svars
    /\ stack # <<>>
    /\ Top.fn = "insert" /\ Top.pc = "body"
    /\ LET r == insert_body(table, n, a, b, m, Top.key, Top.value)
       IN  /\ table' = r.table
           /\ n' = r.n
    /\ stack' = Pop
    /\ ret' = IF Len(stack) = 1 THEN None ELSE ret
    /\ UNCHANGED <<m, a, b, max_load_factor, cur, history>>

\* lines 97-98: the next reinsertion, or the return of _resize
ResizeLoop ==
    /\ UNCHANGED svars
    /\ stack # <<>>
    /\ Top.fn = "resize"
    /\ IF Top.i <= Len(Top.old_items)
       THEN stack' = Pop \o <<[Top EXCEPT !.i = Top.i + 1],
                              InsertFrame(Top.old_items[Top.i][1],
                                          Top.old_items[Top.i][2], "check")>>
       ELSE stack' = Pop
    /\ UNCHANGED <<fields, max_load_factor, cur, ret, history>>

\* a caller invokes delete(key): lines 145-159 (up to _resize's loop when shrinking)
DeleteCall(key) ==
    /\ UNCHANGED svars
    /\ stack = <<>>
    /\ cur' = Call("delete", key, None, 0, ref[key] # Absent)
    /\ pre' = Snapshot
    /\ ref' = [ref EXCEPT ![key] = Absent]
    /\ LET idx == index(key, a, b, m)
           bucket == table[idx + 1]
           i == first_match(bucket, key, 1)
           t2 == [table EXCEPT ![idx + 1] = pop_at(bucket, i)]
       IN  IF i > 0
           THEN IF shrink_needed(n - 1, m)
                THEN /\ \E d \in Draws : resize_start(shrink_target(m), d[1], d[2])
                     /\ stack' = <<DeleteFrame(key), ResizeFrame(collect(t2), n - 1)>>
                     /\ ret' = None
                ELSE /\ table' = t2
                     /\ n' = n - 1
                     /\ stack' = <<>>
                     /\ ret' = TRUE
                     /\ UNCHANGED <<m, a, b>>
           ELSE /\ ret' = FALSE
                /\ UNCHANGED <<fields, stack>>
    /\ UNCHANGED max_load_factor

\* line 157 after a shrink
DeleteReturn ==
    /\ UNCHANGED svars
    /\ stack # <<>>
    /\ Top.fn = "delete"
    /\ stack' = Pop
    /\ ret' = TRUE
    /\ UNCHANGED <<fields, max_load_factor, cur, history>>

\* a caller invokes search(key)
SearchCall(key) ==
    /\ UNCHANGED svars
    /\ stack = <<>>
    /\ cur' = Call("search", key, None, 0, ref[key] # Absent)
    /\ ret' = search(key)
    /\ pre' = Snapshot
    /\ UNCHANGED <<fields, max_load_factor, stack, ref>>

----------------------------------------------------------------------------
(* quicksort.py *)

MaxLen == 5

\* four values: a window both of whose sides are non-empty needs a third value
\* for the pivot, and a side that is recursed into needs two to be unsorted
Elems == {1, 2, 3, 4}

Inputs == UNION {[1..len -> Elems] : len \in 0..MaxLen}

\* list indices are 0-based as in the source
At(l, j) == l[j + 1]

\* variant: only the first of the two assignments is made
swap_half(l, i, j) == [l EXCEPT ![i + 1] = l[j + 1]]

\* arr[i], arr[j] = arr[j], arr[i]
swap(l, i, j) == [l EXCEPT ![i + 1] = l[j + 1], ![j + 1] = l[i + 1]]

\* variant: the > region does not grow after the swap
partition_step_stuck(l, f) ==
    IF At(l, f.i) < f.pivot
    THEN [l |-> swap(l, f.lt + 1, f.i), f |-> [f EXCEPT !.lt = f.lt + 1, !.i = f.i + 1]]
    ELSE IF At(l, f.i) > f.pivot
    THEN [l |-> swap(l, f.i, f.gt), f |-> f]
    ELSE [l |-> l, f |-> [f EXCEPT !.i = f.i + 1]]

\* variant: the scanner also advances after a swap with the > region
partition_step_advancing(l, f) ==
    IF At(l, f.i) < f.pivot
    THEN [l |-> swap(l, f.lt + 1, f.i), f |-> [f EXCEPT !.lt = f.lt + 1, !.i = f.i + 1]]
    ELSE IF At(l, f.i) > f.pivot
    THEN [l |-> swap(l, f.i, f.gt), f |-> [f EXCEPT !.gt = f.gt - 1, !.i = f.i + 1]]
    ELSE [l |-> l, f |-> [f EXCEPT !.i = f.i + 1]]

\* one iteration of the scan loop of _partition_3way (lines 28-38) on list l
\* with the frame f holding pivot, lt, i, gt
partition_step(l, f) ==
    IF At(l, f.i) < f.pivot
    THEN [l |-> swap(l, f.lt + 1, f.i), f |-> [f EXCEPT !.lt = f.lt + 1, !.i = f.i + 1]]
    ELSE IF At(l, f.i) > f.pivot
    THEN [l |-> swap(l, f.i, f.gt), f |-> [f EXCEPT !.gt = f.gt - 1]]
    ELSE [l |-> l, f |-> [f EXCEPT !.i = f.i + 1]]

\* variant: the comparison is reversed, the recursion takes the larger side
left_is_larger(left_lo, left_hi, right_lo, right_hi) ==
    (left_hi - left_lo) > (right_hi - right_lo)

\* line 76: the left window is the smaller one
left_is_smaller(left_lo, left_hi, right_lo, right_hi) ==
    (left_hi - left_lo) < (right_hi - right_lo)

\* variant: a = arr, the same list object
list_alias(r) == r

\* the reference a newly created list object gets: object 1 is the list the
\* first caller built, every sort call so far created one more
NewRef == calls + 2

\* list(arr): a new list object
list(r) == NewRef

\* variant: the random index is drawn from the start of the list
choose_from_start(v, lo, hi) == IF v = "randomized" THEN 0..hi ELSE {lo}

\* choose(lo, hi) of the two public functions
choose(v, lo, hi) == IF v = "randomized" THEN lo..hi ELSE {lo}

\* an activation record of _quicksort(arr, lo, hi, choose); pivot, lt, i, gt
\* are the locals of the _partition_3way call it is in (pc = "scan").
\* History fields: lo0, hi0, l0 are the window and the list at the entry of
\* the call, p0 is the list at the entry of the current _partition_3way call
QFrame(lo, hi, l) ==
    [lo |-> lo, hi |-> hi, pc |-> "loop", pivot |-> 0, lt |-> 0, i |-> 0, gt |-> 0,
     lo0 |-> lo, hi0 |-> hi, l0 |-> l, p0 |-> <<>>]

QTop == qstack[Len(qstack)]

QPop == SubSeq(qstack, 1, Len(qstack) - 1)

\* variant: the pivot value is read after the pivot was moved to the start
partition_setup_late(l, lo, hi, pivot_index) ==
    [l |-> swap(l, lo, pivot_index),
     pivot |-> At(swap(l, lo, pivot_index), pivot_index),
     lt |-> lo, i |-> lo + 1, gt |-> hi]

\* lines 17-24 of _partition_3way: read the pivot value, move it to the
\* start of the window, set the three pointers
partition_setup(l, lo, hi, pivot_index) ==
    [l |-> swap(l, lo, pivot_index),
     pivot |-> At(l, pivot_index),
     lt |-> lo, i |-> lo + 1, gt |-> hi]

\* variant: the pivot stays at the start of the window
partition_finish_skip(l, f) == l

\* line 41 of _partition_3way: the pivot goes to the start of the = region
partition_finish(l, f) == swap(l, f.lo, f.lt)

SortInit ==
    /\ heap = [r \in 1..3 |-> <<>>]
    /\ arr = 0
    /\ a_copy = 0
    /\ variant = "first"
    /\ qstack = <<>>
    /\ spc = "idle"
    /\ result = 0
    /\ input = <<>>
    /\ calls = 0
    /\ prev = [result |-> 0, variant |-> "none"]

\* the body of randomized_quicksort / deterministic_quicksort_first_pivot
\* (lines 97-110, 122-132) called with the list object arr' of the heap h
sort_entry(v, h) ==
    /\ a_copy' = list(arr')
    /\ heap' = [h EXCEPT ![a_copy'] = h[arr']]
    /\ variant' = v
    /\ input' = h[arr']
    /\ calls' = calls + 1
    /\ IF Len(h[arr']) = 0
       THEN /\ qstack' = <<>>
            /\ spc' = "done"
            /\ result' = a_copy'
       ELSE /\ qstack' = <<QFrame(0, Len(h[arr']) - 1, h[arr'])>>
            /\ spc' = "running"
            /\ result' = 0

\* randomized_quicksort(x) / deterministic_quicksort_first_pivot(x) is called
SortCall ==
    /\ spc = "idle"
    /\ \E v \in {"randomized", "first"}, x \in Inputs :
          /\ arr' = 1
          /\ sort_entry(v, [heap EXCEPT ![arr'] = x])
    /\ UNCHANGED prev
    /\ UNCHANGED tvars

\* a second call by the same caller, on the list the first call returned or
\* on the list the first call was given
SortAgain ==
    /\ spc = "done"
    /\ calls = 1
    /\ prev' = [result |-> result, variant |-> variant]
    /\ \E v \in {"randomized", "first"}, r \in {arr, result} :
          /\ arr' = r
          /\ sort_entry(v, heap)
    /\ UNCHANGED tvars

\* _quicksort line 63, and lines 65-68 with lines 17-24 of _partition_3way
QLoop ==
    /\ UNCHANGED tvars
    /\ spc = "running"
    /\ QTop.pc = "loop"
    /\ IF QTop.lo < QTop.hi
       THEN \E pivot_index \in choose(variant, QTop.lo, QTop.hi) :
              LET s == partition_setup(heap[a_copy], QTop.lo, QTop.hi, pivot_index)
              IN  /\ heap' = [heap EXCEPT ![a_copy] = s.l]
                  /\ qstack' = QPop \o <<[QTop EXCEPT !.pc = "scan",
                                                       !.pivot = s.pivot,
                                                       !.lt = s.lt,
                                                       !.i = s.i,
                                                       !.gt = s.gt,
                                                       !.p0 = heap[a_copy]]>>
                  /\ UNCHANGED <<spc, result>>
       ELSE /\ qstack' = QPop
            /\ spc' = IF Len(qstack) = 1 THEN "done" ELSE "running"
            /\ result' = IF Len(qstack) = 1 THEN a_copy ELSE result
            /\ UNCHANGED heap
    /\ UNCHANGED <<arr, a_copy, variant, input, calls, prev>>

\* one iteration of the scan, lines 27-38
QScan ==
    /\ UNCHANGED tvars
    /\ spc = "running"
    /\ QTop.pc = "scan"
    /\ QTop.i <= QTop.gt
    /\ LET r == partition_step(heap[a_copy], QTop)
       IN  /\ heap' = [heap EXCEPT ![a_copy] = r.l]
           /\ qstack' = QPop \o <<r.f>>
    /\ UNCHANGED <<arr, a_copy, variant, spc, result, input, calls, prev>>

\* the end of the scan: lines 41-42, then lines 72-85 of _quicksort
QSplit ==
    /\ UNCHANGED tvars
    /\ spc = "running"
    /\ QTop.pc = "scan"
    /\ QTop.i > QTop.gt
    /\ LET f == QTop
           l == partition_finish(heap[a_copy], f)
           left_lo == f.lo
           left_hi == f.lt - 1
           right_lo == f.gt + 1
           right_hi == f.hi
       IN  /\ heap' = [heap EXCEPT ![a_copy] = l]
           /\ IF left_is_smaller(left_lo, left_hi, right_lo, right_hi)
              THEN qstack' = QPop
                     \o <<[f EXCEPT !.pc = "loop", !.lo = right_lo, !.hi = right_hi,
                                    !.p0 = <<>>]>>
                     \o (IF left_lo < left_hi THEN <<QFrame(left_lo, left_hi, l)>> ELSE <<>>)
              ELSE qstack' = QPop
                     \o <<[f EXCEPT !.pc = "loop", !.lo = left_lo, !.hi = left_hi,
                                    !.p0 = <<>>]>>
                     \o (IF right_lo < right_hi THEN <<QFrame(right_lo, right_hi, l)>> ELSE <<>>)
    /\ UNCHANGED <<arr, a_copy, variant, spc, result, input, calls, prev>>

\* is_sorted(arr)
is_sorted(l) == \A j \in 0..(Len(l) - 2) : At(l, j) <= At(l, j + 1)

\* one call of a sort function
SortNext ==
    \/ SortCall
    \/ QLoop
    \/ QScan
    \/ QSplit

\* a call of a sort function followed by a second one
SortTwiceNext ==
    \/ SortCall
    \/ SortAgain
    \/ QLoop
    \/ QScan
    \/ QSplit

----------------------------------------------------------------------------
(* The two components share no state: Spec runs the hash table with no sort
   call made, SortSpec runs the sort functions beside an untouched
   HashTableChaining() *)

Init == TableInit /\ SortInit

Next ==
    \/ \E key \in Keys, value \in Values : InsertCall(key, value)
    \/ InsertCheck
    \/ InsertBody
    \/ ResizeLoop
    \/ \E key \in Keys : DeleteCall(key)
    \/ DeleteReturn
    \/ \E key \in Keys : SearchCall(key)

Spec == Init /\ [][Next]_vars

\* HashTableChaining() with its default arguments
DefaultTable ==
    /\ m = 8
    /\ max_load_factor = <<3, 4>>
    /\ n = 0
    /\ table = EmptyTable(8)
    /\ a = 1
    /\ b = 0
    /\ stack = <<>>
    /\ cur = Call("new", 0, None, 8, FALSE)
    /\ ret = None
    /\ ref = [k \in Keys \cup DenseKeys |-> Absent]
    /\ pre = Snapshot

\* HashTableChaining(8) or HashTableChaining(16), default max_load_factor
DenseInit ==
    /\ \E initial_capacity \in {8, 16} :
          /\ m = next_power_of_two(initial_capacity)
          /\ cur = Call("new", 0, None, initial_capacity, FALSE)
    /\ max_load_factor = <<3, 4>>
    /\ n = 0
    /\ table = EmptyTable(m)
    /\ \E d \in Draws : a = d[1] /\ b = d[2]
    /\ stack = <<>>
    /\ ret = None
    /\ ref = [k \in Keys \cup DenseKeys |-> Absent]
    /\ pre = Snapshot
    /\ SortInit

\* inserts and deletes of up to NumKeysDense keys with one value
DenseNext ==
    \/ \E key \in DenseKeys : InsertCall(key, "x")
    \/ InsertCheck
    \/ InsertBody
    \/ ResizeLoop
    \/ \E key \in DenseKeys : DeleteCall(key)
    \/ DeleteReturn

DenseSpec == DenseInit /\ [][DenseNext]_vars

SortSpecInit == DefaultTable /\ SortInit

SortSpec == SortSpecInit /\ [][SortNext]_vars

SortTwiceSpec == SortSpecInit /\ [][SortTwiceNext]_vars

\* a sort call that is running keeps being executed: nothing else runs in the
\* interpreter, and there is no cancellation
SortSpecFair == SortSpecInit /\ [][SortNext]_vars /\ WF_vars(QLoop \/ QScan \/ QSplit)

----------------------------------------------------------------------------
(* Properties *)

Returned(op) == stack = <<>> /\ cur.op = op

\* a pair with this key is in some chain of t, wherever it sits
Stored(t, key) == \E j \in 1..Len(t) : \E i \in 1..Len(t[j]) : t[j][i][1] = key

RefKeys == {k \in Keys : ref[k] # Absent}

\* what the reference map answers for key (None when it has none)
RefGet(key) == IF ref[key] = Absent THEN None ELSE ref[key]

RECURSIVE SumLen(_, _)
SumLen(t, j) == IF j > Len(t) THEN 0 ELSE Len(t[j]) + SumLen(t, j + 1)

IsPow2(x) == \E e \in 0..30 : x = 2 ^ e

Max2(x) == IF x < 2 THEN 2 ELSE x

\* the state in which a running _resize returns: its loop has no pair left
ResizeReturning ==
    /\ stack # <<>>
    /\ Top.fn = "resize"
    /\ Top.i > Len(Top.old_items)

KeyIn(items, key) == \E j \in 1..Len(items) : items[j][1] = key

ValueIn(items, key) == items[CHOOSE j \in 1..Len(items) : items[j][1] = key][2]

Count(l, e) == Cardinality({j \in 1..Len(l) : l[j] = e})

Permutation(l1, l2) ==
    /\ Len(l1) = Len(l2)
    /\ \A e \in Elems : Count(l1, e) = Count(l2, e)

\* C1: whenever no call is running, the table answers like the reference map
\* run on the same calls: search(k) gives the reference value (None when the
\* reference has no k) for every key, the last search returned exactly that,
\* the last delete returned TRUE exactly when the reference held the key,
\* and n is the reference map's number of keys.
C1_Refinement ==
    stack = <<>> =>
        /\ n = Cardinality(RefKeys)
        /\ \A k \in Keys : search(k) = RefGet(k)
        /\ \A k \in Keys : Stored(table, k) <=> k \in RefKeys
        /\ cur.op = "search" => ret = RefGet(cur.key)
        /\ cur.op = "delete" => ret = cur.had

\* a delete that removed a key from a chain of two and shrank the table
C1_Witness ==
    /\ Returned("delete")
    /\ ret = TRUE
    /\ m < pre.m
    /\ n >= 2
    /\ \E j \in 1..Len(pre.table) : Len(pre.table[j]) >= 2 /\ pre.table[j][1][1] # cur.key
                                     /\ pre.table[j][2][1] = cur.key

\* C2: a returned sort result is in non-decreasing order and is a permutation
\* of the input, for both variants and every pivot choice.
C2_SortedPermutation ==
    spc = "done" =>
        /\ is_sorted(heap[result])
        /\ Permutation(heap[result], input)

\* a randomized sort of an unsorted list of five elements with duplicates returned
C2_Witness ==
    /\ spc = "done"
    /\ variant = "randomized"
    /\ Len(input) >= 5
    /\ ~is_sorted(input)
    /\ heap[result] # input

\* C3 (as claimed): after every insert call returns, n / m <= max_load_factor.
C3_LoadFactorBound ==
    Returned("insert") => n * max_load_factor[2] <= max_load_factor[1] * m

\* C4 (as claimed): after every delete call returns, m > 8 implies n / m >= 0.20.
C4_ShrinkBound ==
    Returned("delete") => (m > 8 => 5 * n >= m)

\* C4 (amended): a delete that removed a key and returns with m > 8 and
\* n / m < 0.20 has shrunk the table once: the capacity before the call was
\* above 8 with n / m below 0.20 for the new n, and with the default
\* max_load_factor the capacity is now half of it.
C4_ShrinkOnce ==
    (Returned("delete") /\ ret = TRUE /\ m > 8 /\ 5 * n < m) =>
        /\ pre.m > 8
        /\ 5 * n < pre.m
        /\ max_load_factor = <<3, 4>> => 2 * m = pre.m

\* a removing delete halved a table of 32 buckets and left it below 0.20
C4_Witness ==
    /\ Returned("delete")
    /\ ret = TRUE
    /\ m > 8
    /\ 5 * n < m
    /\ max_load_factor = <<3, 4>>
    /\ pre.n = 1

\* C5: when _resize returns, every pair it collected is found by search with
\* its value, no other key is stored, and n is what it was on entry.
C5_ResizePreserves ==
    ResizeReturning =>
        /\ \A k \in Keys :
              IF KeyIn(Top.old_items, k)
              THEN Stored(table, k) /\ search(k) = ValueIn(Top.old_items, k)
              ELSE ~Stored(table, k)
        /\ n = Top.n0

\* a shrink started by delete returns with two or more pairs rehashed
C5_Witness ==
    /\ ResizeReturning
    /\ Len(Top.old_items) >= 2
    /\ stack[1].fn = "delete"
    /\ Len(stack) = 2

\* C6: insert(key, value) of a stored key returns with the key's value
\* replaced, n unchanged and every other key as it was, also when it grew
\* the table.
C6_UpdateInPlace ==
    (Returned("insert") /\ Stored(pre.table, cur.key)) =>
        /\ n = pre.n
        /\ search(cur.key) = cur.value
        /\ \A k \in Keys \ {cur.key} :
              /\ Stored(table, k) <=> Stored(pre.table, k)
              /\ search(k) = search_in(pre.table, pre.a, pre.b, pre.m, k)

\* an update with a different value that grew the table, another key stored
C6_Witness ==
    /\ Returned("insert")
    /\ Stored(pre.table, cur.key)
    /\ search_in(pre.table, pre.a, pre.b, pre.m, cur.key) # cur.value
    /\ m > pre.m
    /\ n >= 2

\* C7: from the call on, the caller's list holds the input unchanged, the
\* working list is another object, and that object is what is returned.
C7_InputUntouched ==
    spc # "idle" =>
        /\ heap[arr] = input
        /\ a_copy # arr
        /\ spc = "done" => result = a_copy

\* a sort returned a list that differs from the input it was given
C7_Witness ==
    /\ spc = "done"
    /\ heap[result] # input
    /\ heap[arr] = input
    /\ Len(input) >= 3

\* C8: in every state, also inside a resize, m is a power of two and at
\* least 2; right after construction it is the smallest power of two that is
\* >= max(initial_capacity, 2).
C8_PowerOfTwo ==
    /\ IsPow2(m)
    /\ m >= 2
    /\ cur.op = "new" =>
          /\ m >= Max2(cur.cap)
          /\ \A q \in 1..(m - 1) : IsPow2(q) => q < Max2(cur.cap)

\* inside a shrink: _resize is reinserting into the halved table
C8_Witness ==
    /\ Len(stack) = 3
    /\ stack[1].fn = "delete"
    /\ stack[3].fn = "insert"
    /\ 2 * m = pre.m

\* C9: after construction and after every insert and delete call returns, n
\* is the sum of the chain lengths and the table has m chains.
C9_SizeIsChainSum ==
    stack = <<>> =>
        /\ n = SumLen(table, 1)
        /\ Len(table) = m

\* an insert that updated a key in a chain of two pairs returned
C9_Witness ==
    /\ Returned("insert")
    /\ cur.had
    /\ n >= 2
    /\ \E j \in 1..Len(table) : Len(table[j]) >= 2

\* C10: delete(key) of a key that is not stored returns FALSE and leaves m,
\* n, every chain, a and b as they were; search(key) then finds nothing.
C10_DeleteAbsent ==
    (Returned("delete") /\ ~Stored(pre.table, cur.key)) =>
        /\ ret = FALSE
        /\ Snapshot = pre
        /\ search(cur.key) = None

\* an absent key was deleted from a sparse table of more than 8 buckets whose
\* bucket for the key is not empty
C10_Witness ==
    /\ Returned("delete")
    /\ ~Stored(pre.table, cur.key)
    /\ m > 8
    /\ 5 * n < m
    /\ table[index(cur.key, a, b, m) + 1] # <<>>

\* floor(log2(x)) for x >= 1
Log2Floor(x) == CHOOSE e \in 0..30 : 2 ^ e <= x /\ x < 2 ^ (e + 1)

\* the number of elements of a frame's window
WinSize(f) == f.hi - f.lo + 1

\* C11: the number of active _quicksort calls never exceeds
\* floor(log2(n)) + 1 for an input of length n >= 1, and every recursive call
\* is made on a window of at most half the window that was partitioned (the
\* caller keeps the other side, which is at least as large).
C11_DepthBound ==
    /\ [](Len(input) >= 1 => Len(qstack) <= Log2Floor(Len(input)) + 1)
    /\ [][Len(qstack') > Len(qstack) /\ Len(qstack) >= 1 =>
            /\ 2 * WinSize(qstack'[Len(qstack')]) <= WinSize(QTop)
            /\ WinSize(qstack'[Len(qstack')]) <= WinSize(qstack'[Len(qstack)])]_vars

\* a recursive call on a window of two distinct elements is active under the
\* always-first variant, while the caller keeps a window of two
C11_Witness ==
    /\ Len(qstack) = 2
    /\ variant = "first"
    /\ WinSize(QTop) = 2
    /\ WinSize(qstack[1]) = 2
    /\ At(QTop.l0, QTop.lo0) # At(QTop.l0, QTop.hi0)
    /\ Len(input) = 5

\* C12: when the second call sorted the list the first call returned, what it
\* returns is equal to that list: sort(sort(x)) = sort(x), for either variant
\* in either call.
C12_Idempotent ==
    (spc = "done" /\ calls = 2 /\ arr = prev.result) =>
        heap[result] = heap[arr]

\* the result of a first-pivot sort of an unsorted list was sorted again by
\* the randomized variant, into another list object
C12_Witness ==
    /\ spc = "done"
    /\ calls = 2
    /\ arr = prev.result
    /\ result # arr
    /\ prev.variant = "first"
    /\ variant = "randomized"
    /\ Len(input) >= 5
    /\ ~is_sorted(heap[1])

\* C13: when the second call sorted the same input as the first, it returns
\* a list equal to what the first call returned, whatever the variants and
\* the pivot choices of the two calls were.
C13_PivotIndependent ==
    (spc = "done" /\ calls = 2 /\ arr # prev.result) =>
        heap[result] = heap[prev.result]

\* an unsorted list with duplicates was sorted by the first-pivot variant and
\* then by the randomized variant
C13_Witness ==
    /\ spc = "done"
    /\ calls = 2
    /\ arr = 1
    /\ prev.result # result
    /\ prev.variant = "first"
    /\ variant = "randomized"
    /\ Len(input) >= 5
    /\ ~is_sorted(input)
    /\ \E j \in 1..(Len(input) - 1) : \E k \in (j + 1)..Len(input) : input[j] = input[k]

\* the scan of the _partition_3way call of the top frame has ended
ScanEnded == spc = "running" /\ QTop.pc = "scan" /\ QTop.i > QTop.gt

\* C15: when _partition_3way returns (lt, gt), lo <= lt <= gt <= hi, the
\* pivot is the value the window held at pivot_index, arr[lo..lt-1] is below
\* the pivot, arr[lt..gt] equals it and arr[gt+1..hi] is above it; a window of
\* equal elements gives (lo, hi).
C15_PartitionPost ==
    ScanEnded =>
        LET f == QTop
            l == partition_finish(heap[a_copy], f)
        IN  /\ f.lo <= f.lt /\ f.lt <= f.gt /\ f.gt <= f.hi
            /\ \E j \in f.lo..f.hi : At(f.p0, j) = f.pivot
            /\ \A j \in f.lo..(f.lt - 1) : At(l, j) < f.pivot
            /\ \A j \in f.lt..f.gt : At(l, j) = f.pivot
            /\ \A j \in (f.gt + 1)..f.hi : At(l, j) > f.pivot
            /\ (\A j \in f.lo..f.hi : At(f.p0, j) = At(f.p0, f.lo)) =>
                   (f.lt = f.lo /\ f.gt = f.hi)

\* a partition around a random pivot ends with all three regions non-empty
\* and an equal run of at least two elements
C15_Witness ==
    /\ ScanEnded
    /\ variant = "randomized"
    /\ QTop.lo < QTop.lt
    /\ QTop.lt < QTop.gt
    /\ QTop.gt < QTop.hi
    /\ At(heap[a_copy], QTop.lo) = QTop.pivot
    /\ At(heap[a_copy], QTop.lt) < QTop.pivot

\* C16: a running sort call returns. Each iteration of the scan makes gt - i
\* strictly smaller, each iteration of the _quicksort loop continues on, and
\* recurses into, a window strictly smaller than the one it partitioned, and
\* a _quicksort call returns only with its window reduced to lo >= hi.
C16_Terminates ==
    /\ (spc = "running") ~> (spc = "done")
    /\ [][(Len(qstack) >= 1 /\ Len(qstack') >= Len(qstack) /\ QTop.pc = "scan") =>
            LET f == QTop
                g == qstack'[Len(qstack)]
            IN  IF g.pc = "scan"
                THEN g.gt - g.i < f.gt - f.i
                ELSE /\ WinSize(g) < WinSize(f)
                     /\ \A d \in (Len(qstack) + 1)..Len(qstack') :
                            WinSize(qstack'[d]) < WinSize(f)]_vars
    /\ [][(Len(qstack) >= 1 /\ Len(qstack') < Len(qstack)) => QTop.lo >= QTop.hi]_vars

\* the first-pivot variant, called on a list of five elements in
\* non-increasing order with three distinct values, has returned
C16_Witness ==
    /\ spc = "done"
    /\ calls = 1
    /\ variant = "first"
    /\ Len(input) = 5
    /\ \A j \in 1..4 : input[j] >= input[j + 1]
    /\ input[1] = 3 /\ input[3] = 2 /\ input[5] = 1

\* the list now differs from the list then only by a permutation of the
\* elements at the indices lo..hi
OnlyPermutes(now, then, lo, hi) ==
    /\ Len(now) = Len(then)
    /\ \A j \in 0..(Len(now) - 1) : (j < lo \/ j > hi) => At(now, j) = At(then, j)
    /\ Permutation(SubSeq(now, lo + 1, hi + 1), SubSeq(then, lo + 1, hi + 1))

\* C20: at every moment of every active _quicksort call, the list differs
\* from the list at the entry of that call only by a permutation inside the
\* window the call was given, and the window it works on stays inside it; the
\* same holds for the active _partition_3way call up to and including its
\* final swap, and the indices it reads and writes (i, lt + 1, gt, lo, lt)
\* lie in its window.
C20_Frame ==
    spc = "running" =>
        /\ \A d \in 1..Len(qstack) :
              /\ OnlyPermutes(heap[a_copy], qstack[d].l0, qstack[d].lo0, qstack[d].hi0)
              /\ qstack[d].lo0 <= qstack[d].lo
              /\ qstack[d].hi <= qstack[d].hi0
        /\ QTop.pc = "scan" =>
              /\ OnlyPermutes(heap[a_copy], QTop.p0, QTop.lo, QTop.hi)
              /\ QTop.lo <= QTop.lt
              /\ QTop.lt < QTop.i
              /\ QTop.i <= QTop.gt + 1
              /\ QTop.gt <= QTop.hi
        /\ ScanEnded =>
              OnlyPermutes(partition_finish(heap[a_copy], QTop), QTop.p0, QTop.lo, QTop.hi)

\* a recursive call on a window that does not start the list has partitioned
\* its window, around a pivot that was not its first element, and changed it
C20_Witness ==
    /\ ScanEnded
    /\ Len(qstack) = 2
    /\ variant = "randomized"
    /\ QTop.lo0 > 0
    /\ heap[a_copy] # QTop.l0
    /\ At(QTop.p0, QTop.lo) # QTop.pivot

\* the number of _resize calls that are active
ResizeDepth == Cardinality({d \in 1..Len(stack) : stack[d].fn = "resize"})

\* C14: at most one _resize call is active at any time, that is, no insert
\* made by the reinsertion loop of _resize calls _resize again, for every
\* max_load_factor of the constructor.
C14_NoNestedResize == ResizeDepth <= 1

\* C17: a search that has returned gave None exactly when no pair with the
\* key is stored, whatever values were inserted (None included).
C17_NoneIffAbsent ==
    Returned("search") => (ret = None <=> ~Stored(table, cur.key))

\* C18: with the default max_load_factor, a delete that returned left the
\* capacity at exactly half of what it was when it removed a key from a table
\* of more than 8 buckets and left n / m < 0.20 (5 * n < m), and left the
\* capacity unchanged in every other case.
C18_ShrinkToHalf ==
    (Returned("delete") /\ max_load_factor = <<3, 4>>) =>
        IF Stored(pre.table, cur.key) /\ pre.m > 8 /\ 5 * (pre.n - 1) < pre.m
        THEN 2 * m = pre.m
        ELSE m = pre.m

\* a delete took a table of 16 buckets from 4 pairs to 3 (3/16 < 0.20) and
\* returned with 8 buckets
C18_Witness ==
    /\ Returned("delete")
    /\ ret = TRUE
    /\ pre.m = 16
    /\ pre.n = 4
    /\ n = 3
    /\ m = 8

\* C19: whenever no public call is running, the table has m chains, the index
\* of every key lies in 0..m-1, every stored pair is in the chain its key's
\* index selects under the current a, b and m, and no key is stored twice.
C19_ChainsWellFormed ==
    stack = <<>> =>
        /\ Len(table) = m
        /\ \A k \in Keys : index(k, a, b, m) \in 0..(m - 1)
        /\ \A j \in 1..Len(table) : \A i \in 1..Len(table[j]) :
              index(table[j][i][1], a, b, m) + 1 = j
        /\ \A j1 \in 1..Len(table), j2 \in 1..Len(table) :
              \A i1 \in 1..Len(table[j1]), i2 \in 1..Len(table[j2]) :
                 table[j1][i1][1] = table[j2][i2][1] => (j1 = j2 /\ i1 = i2)

\* an insert that grew the table, which drew a new a, returned with three
\* pairs stored, two of them in one chain and one in a chain after the first
C19_Witness ==
    /\ Returned("insert")
    /\ m > pre.m
    /\ a # pre.a
    /\ n = 3
    /\ \E j \in 1..Len(table) : Len(table[j]) = 2
    /\ \E j \in 2..Len(table) : Len(table[j]) >= 1

====
